---- MODULE Spec2Model ----
(***************************************************************************)
(* MiSTer_Peeper: three variants of a polling monitor of the MiSTer scaler *)
(* framebuffer (mister_peeper.cpp, mister_color_watch.cpp, mister_peeper.c)*)
(*                                                                         *)
(* 32-bit unsigned values are pairs <<hi, lo>> of 16-bit halves, so that   *)
(* the arithmetic keeps its width (mod 2^32) inside TLC's integers.        *)
(* Byte buffers are sequences; the C byte p[i] is the element i+1.         *)
(***************************************************************************)
EXTENDS Integers, Sequences, FiniteSets, TLC

VARIABLES
    variant,   \* which of the three programs runs
    pc,        \* the program's position in main()
    g_run,     \* the signal-set run flag (C++ variants)
    fd,        \* the /dev/mem descriptor: "none", "open", "closed"
    map,       \* the mapping: "none", "mapped", "unmapped"
    status,    \* exit status, -1 while the process runs
    now,       \* CLOCK_MONOTONIC
    mem,       \* the mapped physical memory, written by the scaler
    L,         \* main()'s locals
    G,         \* file-scope globals (g_epoch, g_stamp, g_count)
    out,       \* what was written to stdout / stderr
    ghost,     \* history of the run (bytes read, what happened after the signal)
    arg,       \* input of a pure function under check
    ret        \* its result

vars == <<variant, pc, g_run, fd, map, status, now, mem, L, G, out, ghost, arg, ret>>
progvars == <<variant, pc, g_run, fd, map, status, now, mem, L, G, out, ghost>>

Byte == 0..255

NoLocals == [undef |-> TRUE]

RetNone == [done |-> FALSE]

(***************************************************************************)
(* Fixed-width arithmetic                                                  *)
(***************************************************************************)
\* a ^ b on 4-bit values: Xor4[a + 1][b + 1]
Xor4 ==
    << <<0, 1, 2, 3, 4, 5, 6, 7, 8, 9, 10, 11, 12, 13, 14, 15>>,
       <<1, 0, 3, 2, 5, 4, 7, 6, 9, 8, 11, 10, 13, 12, 15, 14>>,
       <<2, 3, 0, 1, 6, 7, 4, 5, 10, 11, 8, 9, 14, 15, 12, 13>>,
       <<3, 2, 1, 0, 7, 6, 5, 4, 11, 10, 9, 8, 15, 14, 13, 12>>,
       <<4, 5, 6, 7, 0, 1, 2, 3, 12, 13, 14, 15, 8, 9, 10, 11>>,
       <<5, 4, 7, 6, 1, 0, 3, 2, 13, 12, 15, 14, 9, 8, 11, 10>>,
       <<6, 7, 4, 5, 2, 3, 0, 1, 14, 15, 12, 13, 10, 11, 8, 9>>,
       <<7, 6, 5, 4, 3, 2, 1, 0, 15, 14, 13, 12, 11, 10, 9, 8>>,
       <<8, 9, 10, 11, 12, 13, 14, 15, 0, 1, 2, 3, 4, 5, 6, 7>>,
       <<9, 8, 11, 10, 13, 12, 15, 14, 1, 0, 3, 2, 5, 4, 7, 6>>,
       <<10, 11, 8, 9, 14, 15, 12, 13, 2, 3, 0, 1, 6, 7, 4, 5>>,
       <<11, 10, 9, 8, 15, 14, 13, 12, 3, 2, 1, 0, 7, 6, 5, 4>>,
       <<12, 13, 14, 15, 8, 9, 10, 11, 4, 5, 6, 7, 0, 1, 2, 3>>,
       <<13, 12, 15, 14, 9, 8, 11, 10, 5, 4, 7, 6, 1, 0, 3, 2>>,
       <<14, 15, 12, 13, 10, 11, 8, 9, 6, 7, 4, 5, 2, 3, 0, 1>>,
       <<15, 14, 13, 12, 11, 10, 9, 8, 7, 6, 5, 4, 3, 2, 1, 0>> >>

Xor16(a, b) ==
    Xor4[(a % 16) + 1][(b % 16) + 1]
      + 16 * Xor4[((a \div 16) % 16) + 1][((b \div 16) % 16) + 1]
      + 256 * Xor4[((a \div 256) % 16) + 1][((b \div 256) % 16) + 1]
      + 4096 * Xor4[(a \div 4096) + 1][(b \div 4096) + 1]

Xor32(x, y) == <<Xor16(x[1], y[1]), Xor16(x[2], y[2])>>

\* x << 13 on uint32_t
Shl13(x) == <<(x[1] * 8192 + (x[2] * 8192) \div 65536) % 65536, (x[2] * 8192) % 65536>>

\* x << 5 on uint32_t
Shl5(x) == <<(x[1] * 32 + (x[2] * 32) \div 65536) % 65536, (x[2] * 32) % 65536>>

\* x >> 17 on uint32_t
Shr17(x) == <<0, x[1] \div 2>>

\* x + y on uint32_t
Add32(x, y) ==
    <<(x[1] + y[1] + (x[2] + y[2]) \div 65536) % 65536, (x[2] + y[2]) % 65536>>

\* x * 131 on uint32_t
Mul131(x) == <<(x[1] * 131 + (x[2] * 131) \div 65536) % 65536, (x[2] * 131) % 65536>>

(***************************************************************************)
(* Change-detection hashes                                                 *)
(***************************************************************************)
\* 2166136261u = 0x811C9DC5
HashSeed == <<33052, 40389>>

\* Each statement's value is bound once, innermost first:
\* { f(x) : x \in {e} } is f applied to the value of e.
hash_rgb_dropxor(h, r, g, b) ==
    CHOOSE h3 \in
      { Xor32(h2, Shl5(h2)) : h2 \in
      { Xor32(h1, Shr17(h1)) : h1 \in
      { Shl13(h0) : h0 \in
      { Xor32(hv, pv) : hv \in {h}, pv \in {<<r, g * 256 + b>>} } } } } : TRUE

\* h ^= ((uint32_t)r<<16) ^ ((uint32_t)g<<8) ^ (uint32_t)b;
\* h ^= h<<13; h ^= h>>17; h ^= h<<5; return h;
hash_rgb(h, r, g, b) ==
    CHOOSE h3 \in
      { Xor32(h2, Shl5(h2)) : h2 \in
      { Xor32(h1, Shr17(h1)) : h1 \in
      { Xor32(h0, Shl13(h0)) : h0 \in
      { Xor32(hv, pv) : hv \in {h}, pv \in {<<r, g * 256 + b>>} } } } } : TRUE

\* the fold of one sampling pass of the C++ variants over the sampled pixels
RECURSIVE FoldRgb(_, _)
FoldRgb(h, px) ==
    IF px = <<>> THEN h
    ELSE CHOOSE v \in
           { FoldRgb(h1, t) : h1 \in {hash_rgb(h, px[1][1], px[1][2], px[1][3])},
                             t \in {Tail(px)} } : TRUE

\* one step of the fold of mister_peeper.c
c_hash_step(h, r, g, b) ==
    CHOOSE v \in { Add32(Mul131(hv), pv) : hv \in {h}, pv \in {<<b, g * 256 + r>>} } : TRUE

RECURSIVE FoldC(_, _)
FoldC(h, px) ==
    IF px = <<>> THEN h
    ELSE CHOOSE v \in
           { FoldC(h1, t) : h1 \in {c_hash_step(h, px[1][1], px[1][2], px[1][3])},
                           t \in {Tail(px)} } : TRUE

(***************************************************************************)
(* Header decoding                                                         *)
(***************************************************************************)
be16_noswap(x) == x

be16(x) == ((x \div 256) + ((x * 256) % 65536)) % 65536

\* a uint16_t field of the packed struct, filled by memcpy on the
\* little-endian host (ARM): the byte at the lower address is the low byte
Le16At(b, off) == b[off + 1] + 256 * b[off + 2]

FbHeader(b) ==
    [ty            |-> b[1],
     pixel_fmt     |-> b[2],
     header_len_be |-> Le16At(b, 2),
     attributes_be |-> Le16At(b, 4),
     width_be      |-> Le16At(b, 6),
     height_be     |-> Le16At(b, 8),
     line_be       |-> Le16At(b, 10),
     out_width_be  |-> Le16At(b, 12),
     out_height_be |-> Le16At(b, 14)]

triple_buffered(attr_be) == (be16(attr_be) \div 16) % 2 = 1

\* the fields main() resolves from the header
ResolveHeader(b) ==
    LET h == FbHeader(b)
    IN  [header_len |-> be16(h.header_len_be),
         width      |-> be16(h.width_be),
         height     |-> be16(h.height_be),
         line       |-> be16(h.line_be),
         fmt        |-> h.pixel_fmt,
         triple     |-> triple_buffered(h.attributes_be)]

(***************************************************************************)
(* 16-bit pixel loaders; p is the byte pair <<p[0], p[1]>>                 *)
(***************************************************************************)
Expand5(f) == ((f * 255) \div 31) % 256
Expand6(f) == ((f * 255) \div 63) % 256

load_rgb565_LE_shift10(p) ==
    LET v == p[1] + 256 * p[2]
    IN  <<Expand5((v \div 1024) % 32), Expand6((v \div 32) % 64), Expand5(v % 32)>>

load_rgb565_LE(p) ==
    LET v == p[1] + 256 * p[2]
    IN  <<Expand5((v \div 2048) % 32), Expand6((v \div 32) % 64), Expand5(v % 32)>>

load_rgb565_BE(p) ==
    LET v == 256 * p[1] + p[2]
    IN  <<Expand5((v \div 2048) % 32), Expand6((v \div 32) % 64), Expand5(v % 32)>>

load_bgr565_LE(p) ==
    LET v == p[1] + 256 * p[2]
    IN  <<Expand5(v % 32), Expand6((v \div 32) % 64), Expand5((v \div 2048) % 32)>>

load_bgr565_BE(p) ==
    LET v == 256 * p[1] + p[2]
    IN  <<Expand5(v % 32), Expand6((v \div 32) % 64), Expand5((v \div 2048) % 32)>>

\* the only 16-bit loader of mister_color_watch.cpp
load_rgb565(p) ==
    LET v == p[1] + 256 * p[2]
    IN  <<Expand5((v \div 2048) % 32), Expand6((v \div 32) % 64), Expand5(v % 32)>>

Rgb16Loaders == {"RGB565-LE", "RGB565-BE", "BGR565-LE", "BGR565-BE"}

\* a call through the Rgb16Loader function pointer
CallLoader(fn, p) ==
    CASE fn = "RGB565-LE" -> load_rgb565_LE(p)
      [] fn = "RGB565-BE" -> load_rgb565_BE(p)
      [] fn = "BGR565-LE" -> load_bgr565_LE(p)
      [] fn = "BGR565-BE" -> load_bgr565_BE(p)

(***************************************************************************)
(* Nearest colour name                                                     *)
(***************************************************************************)
kPalette ==
    << <<"Black", 0, 0, 0>>,       <<"White", 255, 255, 255>>, <<"Red", 255, 0, 0>>,
       <<"Lime", 0, 255, 0>>,      <<"Blue", 0, 0, 255>>,      <<"Yellow", 255, 255, 0>>,
       <<"Cyan", 0, 255, 255>>,    <<"Magenta", 255, 0, 255>>, <<"Silver", 192, 192, 192>>,
       <<"Gray", 128, 128, 128>>,  <<"Maroon", 128, 0, 0>>,    <<"Olive", 128, 128, 0>>,
       <<"Green", 0, 128, 0>>,     <<"Purple", 128, 0, 128>>,  <<"Teal", 0, 128, 128>>,
       <<"Navy", 0, 0, 128>>,      <<"Orange", 255, 165, 0>>,  <<"Pink", 255, 192, 203>>,
       <<"Brown", 165, 42, 42>>,   <<"Gold", 255, 215, 0>> >>

color_table ==
    << <<"Black", 0, 0, 0>>,      <<"White", 255, 255, 255>>, <<"Red", 255, 0, 0>>,
       <<"Green", 0, 255, 0>>,    <<"Blue", 0, 0, 255>>,      <<"Yellow", 255, 255, 0>>,
       <<"Cyan", 0, 255, 255>>,   <<"Magenta", 255, 0, 255>>, <<"Gray", 128, 128, 128>>,
       <<"Orange", 255, 165, 0>>, <<"Purple", 128, 0, 128>>,  <<"Pink", 255, 192, 203>> >>

SqDist(e, r, g, b) ==
    (r - e[2]) * (r - e[2]) + (g - e[3]) * (g - e[3]) + (b - e[4]) * (b - e[4])

RECURSIVE NearestFrom_last(_, _, _, _, _, _)
NearestFrom_last(tab, i, best_i, r, g, b) ==
    IF i > Len(tab) THEN best_i
    ELSE IF best_i = 0 \/ SqDist(tab[i], r, g, b) <= SqDist(tab[best_i], r, g, b)
         THEN NearestFrom_last(tab, i + 1, i, r, g, b)
         ELSE NearestFrom_last(tab, i + 1, best_i, r, g, b)

\* the scan of the table: best_i moves only on a strictly smaller distance
RECURSIVE NearestFrom(_, _, _, _, _, _)
NearestFrom(tab, i, best_i, r, g, b) ==
    IF i > Len(tab) THEN best_i
    ELSE IF best_i = 0 \/ SqDist(tab[i], r, g, b) < SqDist(tab[best_i], r, g, b)
         THEN NearestFrom(tab, i + 1, i, r, g, b)
         ELSE NearestFrom(tab, i + 1, best_i, r, g, b)

\* mister_peeper.cpp
nearest_color_name(r, g, b) == kPalette[NearestFrom(kPalette, 1, 0, r, g, b)][1]

\* mister_peeper.c
c_nearest_color_name(r, g, b) == color_table[NearestFrom(color_table, 1, 0, r, g, b)][1]

(***************************************************************************)
(* The mapped memory.  The scaler keeps a 16-byte header at offset 0 and,  *)
(* when triple-buffered, further buffers at the small (0x200000, 0x400000) *)
(* or large (0x800000, 0x1000000) offsets.  mem.hdr is the primary header, *)
(* mem.large the layout the scaler uses, mem.fc the byte 5 of each further *)
(* buffer, mem.frame the picture each region holds.                        *)
(***************************************************************************)
SecOffs == {2097152, 4194304, 8388608, 16777216}
Regions == {0} \cup SecOffs

RegionOf(off) ==
    IF off >= 16777216 THEN 16777216
    ELSE IF off >= 8388608 THEN 8388608
    ELSE IF off >= 4194304 THEN 4194304
    ELSE IF off >= 2097152 THEN 2097152
    ELSE 0

FrameIds == {0, 1, 2}

\* the byte a picture holds at an offset from its region's start
FrameByte(id, rel) ==
    CASE id = 0 -> 0
      [] id = 1 -> (rel * 37 + 11) % 256
      [] id = 2 -> (rel * 59 + 200) % 256

\* bit 4 of header byte 5
HdrTriple(hdr) == (hdr[6] \div 16) % 2 = 1

ActiveSecs(m) ==
    IF ~HdrTriple(m.hdr) THEN {}
    ELSE IF m.large THEN {8388608, 16777216} ELSE {2097152, 4194304}

\* the byte at an offset of the mapping
MemByte(m, off) ==
    CHOOSE v \in
      { IF base = 0 /\ o - base < 16 THEN m.hdr[o - base + 1]
        ELSE IF base # 0 /\ o - base = 0 THEN (IF base \in ActiveSecs(m) THEN 1 ELSE 0)
        ELSE IF base # 0 /\ o - base = 1 THEN (IF base \in ActiveSecs(m) THEN m.hdr[2] ELSE 0)
        ELSE IF base # 0 /\ o - base = 5 THEN m.fc[base]
        ELSE FrameByte(m.frame[base], o - base)
        : o \in {off}, base \in {RegionOf(x) : x \in {off}} } : TRUE

\* memcpy(&h, base + off, sizeof(FbHeader))
HeaderBytesAt(m, off) == [i \in 1..16 |-> MemByte(m, off + i - 1)]

MkHeader(ty, fmt, hlen, attr, w, h, line) ==
    <<ty, fmt, hlen \div 256, hlen % 256, attr \div 256, attr % 256,
      w \div 256, w % 256, h \div 256, h % 256, line \div 256, line % 256,
      w \div 256, w % 256, h \div 256, h % 256>>

(***************************************************************************)
(* Sampling                                                                *)
(***************************************************************************)
\* MAP_LEN of the C++ variants, MISTER_SCALER_BUFFERSIZE of mister_peeper.c
MAP_LEN == 25165824
MISTER_SCALER_BUFFERSIZE == 6291456

kStep == 4

fb_off(large, idx) ==
    IF idx = 0 THEN 0
    ELSE IF large THEN (IF idx = 1 THEN 8388608 ELSE 16777216)
    ELSE (IF idx = 1 THEN 2097152 ELSE 4194304)

\* hdr_ok lambda of mister_peeper.cpp
hdr_ok(m, off) ==
    IF off + 16 > MAP_LEN THEN FALSE
    ELSE LET t == FbHeader(HeaderBytesAt(m, off)) IN t.ty = 1 /\ t.pixel_fmt <= 2

\* for(y=0;y<h;y+=ys) for(x=0;x<w;x+=xs): the positions visited, in order
Grid(w, h, xs, ys) ==
    LET nx == (w + xs - 1) \div xs
        ny == (h + ys - 1) \div ys
    IN  [k \in 1..(nx * ny) |-> <<((k - 1) % nx) * xs, ((k - 1) \div nx) * ys>>]

\* r=p[0], g=p[1], b=p[2] at an offset of the mapping
Rgb888At(m, off) == <<MemByte(m, off), MemByte(m, off + 1), MemByte(m, off + 2)>>

BytePairAt(m, off) == <<MemByte(m, off), MemByte(m, off + 1)>>

PeeperPixels_skipunknown(m, pix, w, h, line, fmt, loader) ==
    CHOOSE v \in
      { IF fmt \notin {0, 1, 2} THEN <<>> ELSE
        [k \in 1..Len(grid) |->
            IF fmt = 1 THEN Rgb888At(m, pix + grid[k][2] * line + grid[k][1] * 3)
            ELSE IF fmt = 2 THEN Rgb888At(m, pix + grid[k][2] * line + grid[k][1] * 4)
            ELSE CallLoader(loader, BytePairAt(m, pix + grid[k][2] * line + grid[k][1] * 2))]
        : grid \in {Grid(w, h, kStep, kStep)} } : TRUE

\* the (r,g,b) of every grid position of one pass of mister_peeper.cpp
\* (fmt==RGB24: 3 bytes per pixel, fmt==RGBA32: 4, anything else: the 16-bit loader)
PeeperPixels(m, pix, w, h, line, fmt, loader) ==
    CHOOSE v \in
      { [k \in 1..Len(grid) |->
            IF fmt = 1 THEN Rgb888At(m, pix + grid[k][2] * line + grid[k][1] * 3)
            ELSE IF fmt = 2 THEN Rgb888At(m, pix + grid[k][2] * line + grid[k][1] * 4)
            ELSE CallLoader(loader, BytePairAt(m, pix + grid[k][2] * line + grid[k][1] * 2))]
        : grid \in {Grid(w, h, kStep, kStep)} } : TRUE

(***************************************************************************)
(* 5-6-5 histogram with the epoch trick.  g_stamp and g_count are kept for *)
(* the slots written so far; every other slot still holds its initial 0.   *)
(***************************************************************************)
Inc32(e) == IF e[2] = 65535 THEN <<(e[1] + 1) % 65536, 0>> ELSE <<e[1], e[2] + 1>>

StampAt(g, key) == IF key \in DOMAIN g.g_stamp THEN g.g_stamp[key] ELSE <<0, 0>>
CountAt(g, key) == IF key \in DOMAIN g.g_count THEN g.g_count[key] ELSE 0

Put(f, key, v) == [k \in (DOMAIN f) \cup {key} |-> IF k = key THEN v ELSE f[k]]

NextEpoch_noclear(g) ==
    LET e == Inc32(g.g_epoch)
    IN  IF e = <<0, 0>> THEN [g EXCEPT !.g_epoch = Inc32(e)] ELSE [g EXCEPT !.g_epoch = e]

\* if(++g_epoch==0){ memset(g_stamp..); memset(g_count..); ++g_epoch; }
NextEpoch(g) ==
    LET e == Inc32(g.g_epoch)
    IN  IF e = <<0, 0>>
        THEN [g_epoch |-> Inc32(e), g_stamp |-> <<>>, g_count |-> <<>>]
        ELSE [g EXCEPT !.g_epoch = e]

Key565(c) == (c[1] \div 8) * 2048 + (c[2] \div 4) * 32 + (c[3] \div 8)

\* the histogram statements of the loop body for one pixel; st holds the
\* globals and mode_key, mode_count
HistStep(st, c) ==
    LET key   == Key565(c)
        epoch == st.g.g_epoch
        fresh == StampAt(st.g, key) # epoch
        cnt   == IF fresh THEN 1 ELSE (CountAt(st.g, key) + 1) % 65536
        g1    == [st.g EXCEPT !.g_stamp = IF fresh THEN Put(@, key, epoch) ELSE @,
                              !.g_count = Put(@, key, cnt)]
        beat  == ~fresh /\ cnt > st.mode_count
        mc    == IF beat THEN cnt ELSE st.mode_count
        mk    == IF beat THEN key ELSE st.mode_key
    IN  [g |-> g1,
         mode_count |-> IF mc = 0 THEN 1 ELSE mc,
         mode_key   |-> IF mc = 0 THEN key ELSE mk]

RECURSIVE HistFold(_, _)
HistFold(st, px) ==
    IF px = <<>> THEN st
    ELSE CHOOSE v \in
           { HistFold(s1, t) : s1 \in {HistStep(st, px[1])}, t \in {Tail(px)} } : TRUE

\* the samples choose_rgb16_loader takes: for each offset of off_table, every
\* 32nd pixel of every 32nd row (the cap of 1200 is not reached by the frames
\* of this model)
off_table == {<<0, 0>>, <<8, 8>>, <<4, 12>>, <<12, 4>>, <<2, 2>>, <<6, 10>>, <<10, 6>>}

DetectPositions(w, h) ==
    {<<x, y>> \in (0..(w - 1)) \X (0..(h - 1)) :
        \E o \in off_table : x >= o[1] /\ y >= o[2] /\ (x - o[1]) % 32 = 0 /\ (y - o[2]) % 32 = 0}

\* choose_rgb16_loader: with at most one sample every candidate has variance 0
\* and span 0, all scores tie and C[0] is returned; with more samples the
\* floating-point variance score decides, which is left open here: any of
\* the four candidates may be returned.
choose_rgb16_loader(w, h) ==
    IF Cardinality(DetectPositions(w, h)) <= 1 THEN {"RGB565-LE"} ELSE Rgb16Loaders

(***************************************************************************)
(* The program and its environment                                         *)
(***************************************************************************)
Variants == {"peeper_cpp", "color_watch", "peeper_c"}
CppVariants == {"peeper_cpp", "color_watch"}

MaxTime == 3      \* the clock stops the model here
MaxEnv == 2       \* frames and mode changes of the scaler

DtChoices == {1, 2}   \* clock ticks that pass between two readings

PictureIds == {1, 2}

\* what the scaler can be set to: <<pixel format, width, height, line,
\* header length, triple-buffered, large layout>>
Modes ==
    { <<1, 8, 8, 32, 16, FALSE, FALSE>>,    \* RGB24
      <<0, 8, 8, 32, 16, FALSE, FALSE>>,    \* RGB16
      <<2, 8, 8, 32, 16, TRUE,  FALSE>>,    \* RGBA32, three buffers, small layout
      <<1, 8, 8, 32, 16, TRUE,  TRUE>>,     \* RGB24, three buffers, large layout
      <<3, 8, 8, 32, 16, FALSE, FALSE>>,    \* a pixel format that is none of 0, 1, 2
      <<1, 0, 8, 32, 16, FALSE, FALSE>>,    \* no columns
      <<0, 8, 0, 32, 16, FALSE, FALSE>> }   \* no rows

\* the modes a running scaler is switched to
NextModes ==
    { <<1, 8, 8, 32, 16, FALSE, FALSE>>, <<0, 8, 8, 32, 16, FALSE, FALSE>>,
      <<1, 8, 8, 32, 16, TRUE, TRUE>>,   <<1, 0, 8, 32, 16, FALSE, FALSE>>,
      <<0, 8, 8, 32, 16, TRUE, FALSE>> }

\* the header of a mode; fcb holds bits 7..5 of byte 5, the frame counter
ModeHeader(ty, md, fcb) ==
    MkHeader(ty, md[1], md[5], fcb + (IF md[6] THEN 16 ELSE 0), md[2], md[3], md[4])

NoReport == [kind |-> "none"]
NoPass == [valid |-> FALSE]

InitMems ==
    {[hdr   |-> ModeHeader(ty, md, 0),
      large |-> md[7],
      fc    |-> [o \in SecOffs |-> 0],
      frame |-> [r \in Regions |-> 1],
      wr    |-> 0] :
        ty \in {0, 1}, md \in Modes}

ProgInit ==
    /\ variant \in Variants
    /\ pc = IF variant = "color_watch" THEN "args" ELSE "start"
    /\ g_run = TRUE
    /\ fd = "none" /\ map = "none" /\ status = -1 /\ now = 0
    /\ mem \in {m \in InitMems : m.hdr[1] = 0 => m.hdr[2] = 1 /\ ~HdrTriple(m.hdr)}
    /\ L = NoLocals
    /\ G = [g_epoch |-> <<0, 1>>, g_stamp |-> <<>>, g_count |-> <<>>]
    /\ out = [lines |-> 0, last |-> NoReport, err |-> {}, banner |-> FALSE]
    /\ ghost = [nenv |-> 0, hdr_read |-> FALSE, tag |-> -1, unk |-> FALSE,
                sampled |-> FALSE, after_sig |-> 0, pass |-> NoPass]
    /\ arg = [unused |-> TRUE] /\ ret = RetNone

Alive == status = -1

\* the scaler delivers a frame to the next of its buffers (in rotation when
\* triple-buffered): the picture changes (or not) and the frame counter in
\* bits 7..5 of the buffer's header byte 5 moves
EnvFrame ==
    /\ Alive /\ ghost.hdr_read
    /\ ghost.nenv < MaxEnv
    /\ \E f \in PictureIds :
          LET i == IF HdrTriple(mem.hdr) THEN (mem.wr + 1) % 3 ELSE 0
              r == fb_off(mem.large, i)
          IN  mem' = [mem EXCEPT !.frame[r] = f,
                                 !.wr = i,
                                 !.hdr[6] = IF r = 0 THEN (@ + 32) % 256 ELSE @,
                                 !.fc = IF r = 0 THEN @ ELSE [@ EXCEPT ![r] = (@ + 32) % 256]]
    /\ ghost' = [ghost EXCEPT !.nenv = @ + 1]
    /\ UNCHANGED <<variant, pc, g_run, fd, map, status, now, L, G, out, arg, ret>>

\* a core / video mode change: the scaler rewrites its header
EnvScaler ==
    /\ Alive /\ ghost.hdr_read
    /\ ghost.nenv < MaxEnv
    /\ \E md \in NextModes :
          LET h == ModeHeader(1, md, (mem.hdr[6] \div 32) * 32)
          IN  /\ <<h, md[7]>> # <<mem.hdr, mem.large>>
              /\ mem' = [mem EXCEPT !.hdr = h, !.large = md[7]]
    /\ ghost' = [ghost EXCEPT !.nenv = @ + 1]
    /\ UNCHANGED <<variant, pc, g_run, fd, map, status, now, L, G, out, arg, ret>>

\* on_sig / sigint: SIGINT or SIGTERM while the handler is installed
Signal ==
    /\ variant \in CppVariants /\ Alive /\ pc \notin {"args", "start"}
    /\ g_run
    /\ g_run' = FALSE
    /\ UNCHANGED <<variant, pc, fd, map, status, now, mem, L, G, out, ghost, arg, ret>>

Exit(code) == pc' = "exited" /\ status' = code

\* signal(...); fd=open("/dev/mem",...); if(fd<0){ perror; return 1; }
Open ==
    /\ pc = "start"
    /\ \E ok \in BOOLEAN :
          IF ok THEN fd' = "open" /\ pc' = "opened" /\ UNCHANGED <<status, out>>
          ELSE /\ Exit(1) /\ out' = [out EXCEPT !.err = @ \cup {"open"}] /\ UNCHANGED fd
    /\ UNCHANGED <<variant, g_run, map, now, mem, L, G, ghost, arg, ret>>

Mmap_noclose ==
    /\ pc = "opened"
    /\ \E ok \in BOOLEAN :
          IF ok THEN map' = "mapped" /\ pc' = "mapped" /\ UNCHANGED <<status, out, fd>>
          ELSE /\ Exit(1) /\ out' = [out EXCEPT !.err = @ \cup {"mmap"}] /\ UNCHANGED <<map, fd>>
    /\ UNCHANGED <<variant, g_run, now, mem, L, G, ghost, arg, ret>>

\* map=mmap(...); if(map==MAP_FAILED){ perror; close(fd); return 1; }
Mmap ==
    /\ pc = "opened"
    /\ \E ok \in BOOLEAN :
          IF ok THEN map' = "mapped" /\ pc' = "mapped" /\ UNCHANGED <<status, out, fd>>
          ELSE /\ Exit(1) /\ fd' = "closed"
               /\ out' = [out EXCEPT !.err = @ \cup {"mmap"}] /\ UNCHANGED map
    /\ UNCHANGED <<variant, g_run, now, mem, L, G, ghost, arg, ret>>

\* munmap(...); close(fd); return 0;  after the polling loop of the C++ variants
Shutdown ==
    /\ variant \in CppVariants /\ pc = "after_loop"
    /\ map' = "unmapped" /\ fd' = "closed" /\ Exit(0)
    /\ UNCHANGED <<variant, g_run, now, mem, L, G, out, ghost, arg, ret>>

\* if(!g_run) break;  after the wait for a frame (C++ variants)
BreakCheck ==
    /\ variant \in CppVariants /\ pc = "brk"
    /\ pc' = IF g_run THEN "frame" ELSE "after_loop"
    /\ UNCHANGED <<variant, g_run, fd, map, status, now, mem, L, G, out, ghost, arg, ret>>

Emit(o, rep) == [o EXCEPT !.lines = @ + 1, !.last = rep]

\* the record of a pass: whether pixels were read, whether its report line
\* was written after the run flag was cleared, and what the pass saw
NotePass(gh, pass, px, lines) ==
    [gh EXCEPT !.hdr_read = TRUE,
               !.sampled = @ \/ px # <<>>,
               !.after_sig = @ + (IF g_run THEN 0 ELSE lines),
               !.unk = @ \/ pass.fmt \notin {0, 1, 2},
               !.pass = pass]

\* what a pass adds to the record from the passes before it: the hash of the
\* preceding pass and the time of the latest baseline or changed pass
PassHistory(gh, baseline, hsh, t) ==
    LET pv == gh.pass.valid
        ph == IF pv THEN gh.pass.hsh ELSE <<0, 0>>
    IN  [prev_valid |-> pv, prev_hsh |-> ph,
         reset_t |-> IF baseline \/ ~pv \/ hsh # ph THEN t ELSE gh.pass.hist.reset_t]

\* if(h.ty != 0x01){ ... return 3; }
HeaderMissing_never(h) == FALSE

HeaderMissing(h) == h.ty # 1

(***************************************************************************)
(* mister_peeper.cpp                                                       *)
(***************************************************************************)
\* attr_ptrs[0][0] + (triple ? (uint16_t)(attr_ptrs[1][0]+attr_ptrs[2][0]) : 0)
PeeperFcSum(m, l) ==
    (MemByte(m, l.attr_ptrs[1])
       + (IF l.triple THEN MemByte(m, l.attr_ptrs[2]) + MemByte(m, l.attr_ptrs[3]) ELSE 0)) % 65536

\* { attr_ptrs[0][0], triple ? attr_ptrs[1][0] : 0, triple ? attr_ptrs[2][0] : 0 }
PeeperCounters(m, l) ==
    <<MemByte(m, l.attr_ptrs[1]),
      IF l.triple THEN MemByte(m, l.attr_ptrs[2]) ELSE 0,
      IF l.triple THEN MemByte(m, l.attr_ptrs[3]) ELSE 0>>

PickBuffer_nowrap(triple, curr_fc, prev_fc) ==
    IF ~triple THEN 0
    ELSE LET diff0 == curr_fc[1] - prev_fc[1]
             diff1 == curr_fc[2] - prev_fc[2]
             diff2 == curr_fc[3] - prev_fc[3]
             buf   == IF diff1 > diff0 THEN 1 ELSE 0
             best  == IF buf = 1 THEN diff1 ELSE diff0
         IN  IF diff2 > best THEN 2 ELSE buf

\* the active buffer: the one whose frame counter advanced most, modulo 256
PickBuffer(triple, curr_fc, prev_fc) ==
    IF ~triple THEN 0
    ELSE LET diff0 == (curr_fc[1] - prev_fc[1] + 256) % 256
             diff1 == (curr_fc[2] - prev_fc[2] + 256) % 256
             diff2 == (curr_fc[3] - prev_fc[3] + 256) % 256
             buf   == IF diff1 > diff0 THEN 1 ELSE 0
             best  == IF buf = 1 THEN diff1 ELSE diff0
         IN  IF diff2 > best THEN 2 ELSE buf

PeeperChange_nostore(l, hsh, t) ==
    IF l.first THEN [l EXCEPT !.last_hash = hsh, !.last_change_ns = t, !.first = FALSE]
    ELSE IF hsh # l.last_hash THEN [l EXCEPT !.last_change_ns = t]
    ELSE l

\* if(first){ last_hash=hsh; last_change_ns=t_ns; first=false; }
\* else if(hsh!=last_hash){ last_change_ns=t_ns; last_hash=hsh; }
PeeperChange(l, hsh, t) ==
    IF l.first THEN [l EXCEPT !.last_hash = hsh, !.last_change_ns = t, !.first = FALSE]
    ELSE IF hsh # l.last_hash THEN [l EXCEPT !.last_change_ns = t, !.last_hash = hsh]
    ELSE l

PeeperRecheck_keeploader(m, l) ==
    CHOOSE r \in
      { IF cur.width # l.last_width \/ cur.height # l.last_height
           \/ cur.line # l.last_line \/ cur.fmt # l.last_fmt
           \/ cur.header_len # l.last_header_len \/ cur.triple # l.triple
        THEN [l EXCEPT !.last_width = cur.width, !.last_height = cur.height,
                       !.last_line = cur.line, !.last_fmt = cur.fmt,
                       !.last_header_len = cur.header_len, !.triple = cur.triple,
                       !.fmt = cur.fmt,
                       !.large = cur.triple /\ ~hdr_ok(m, 2097152) /\ hdr_ok(m, 8388608),
                       !.last_hash = <<0, 0>>, !.first = TRUE]
        ELSE l : cur \in {ResolveHeader(HeaderBytesAt(m, 0))} } : TRUE

\* the header re-read at the top of a frame; on a change of geometry, format,
\* header length or triple flag the last-seen values, the large flag, the
\* 16-bit loader and the change baseline are reset
PeeperRecheck(m, l) ==
    CHOOSE r \in
      { IF cur.width # l.last_width \/ cur.height # l.last_height
           \/ cur.line # l.last_line \/ cur.fmt # l.last_fmt
           \/ cur.header_len # l.last_header_len \/ cur.triple # l.triple
        THEN [l EXCEPT !.last_width = cur.width, !.last_height = cur.height,
                       !.last_line = cur.line, !.last_fmt = cur.fmt,
                       !.last_header_len = cur.header_len, !.triple = cur.triple,
                       !.fmt = cur.fmt,
                       !.large = cur.triple /\ ~hdr_ok(m, 2097152) /\ hdr_ok(m, 8388608),
                       !.rgb16_loader = "null",
                       !.last_hash = <<0, 0>>, !.first = TRUE]
        ELSE l : cur \in {ResolveHeader(HeaderBytesAt(m, 0))} } : TRUE

\* Expand 5-6-5 bin to 8-bit for output
ExpandKey(key) ==
    <<Expand5((key \div 2048) % 32), Expand6((key \div 32) % 64), Expand5(key % 32)>>

\* FbHeader h; memcpy; if(h.ty!=0x01){ ...; munmap; close; return 3; } and the
\* set-up of the locals up to the polling loop
PeeperReadHeader ==
    /\ variant = "peeper_cpp" /\ pc = "mapped"
    /\ \E hb \in {HeaderBytesAt(mem, 0)} :
       \E r \in {ResolveHeader(hb)} :
       \E lg \in {r.triple /\ ~hdr_ok(mem, 2097152) /\ hdr_ok(mem, 8388608)} :
       \E ap \in {<<5, fb_off(lg, 1) + 5, fb_off(lg, 2) + 5>>} :
           IF HeaderMissing(FbHeader(hb))
           THEN /\ out' = [out EXCEPT !.err = @ \cup {"header_not_found"}]
                /\ map' = "unmapped" /\ fd' = "closed" /\ Exit(3)
                /\ UNCHANGED L
           ELSE /\ L' = [header_len |-> r.header_len, width |-> r.width, height |-> r.height,
                         line |-> r.line, fmt |-> r.fmt, triple |-> r.triple, large |-> lg,
                         attr_ptrs |-> ap,
                         last_width |-> r.width, last_height |-> r.height, last_line |-> r.line,
                         last_fmt |-> r.fmt, last_header_len |-> r.header_len,
                         last_hash |-> <<0, 0>>, first |-> TRUE,
                         start_ns |-> now, last_change_ns |-> now,
                         prev_fc |-> <<MemByte(mem, ap[1]),
                                       IF r.triple THEN MemByte(mem, ap[2]) ELSE 0,
                                       IF r.triple THEN MemByte(mem, ap[3]) ELSE 0>>,
                         rgb16_loader |-> "null", s0 |-> 0]
                /\ pc' = "loop"
                /\ UNCHANGED <<out, map, fd, status>>
    /\ ghost' = [ghost EXCEPT !.hdr_read = TRUE, !.tag = MemByte(mem, 0)]
    /\ UNCHANGED <<variant, g_run, now, mem, G, arg, ret>>

\* while(g_run){ uint16_t s0 = ...
PeeperLoopTop ==
    /\ variant = "peeper_cpp" /\ pc = "loop"
    /\ IF g_run
       THEN /\ now < MaxTime
            /\ L' = [L EXCEPT !.s0 = PeeperFcSum(mem, L)]
            /\ pc' = "wait"
       ELSE pc' = "after_loop" /\ UNCHANGED L
    /\ UNCHANGED <<variant, g_run, fd, map, status, now, mem, G, out, ghost, arg, ret>>

PeeperPoll_noflag ==
    /\ variant = "peeper_cpp" /\ pc = "wait"
    /\ pc' = IF PeeperFcSum(mem, L) # L.s0 THEN "brk" ELSE "wait"
    /\ UNCHANGED <<variant, g_run, fd, map, status, now, mem, L, G, out, ghost, arg, ret>>

\* while(g_run){ s1 = ...; if(s1!=s0) break; usleep(...); }
PeeperPoll ==
    /\ variant = "peeper_cpp" /\ pc = "wait"
    /\ pc' = IF ~g_run \/ PeeperFcSum(mem, L) # L.s0 THEN "brk" ELSE "wait"
    /\ UNCHANGED <<variant, g_run, fd, map, status, now, mem, L, G, out, ghost, arg, ret>>

\* one frame: header re-read, buffer pick, sampling pass, change detection, output
PeeperFrame ==
    /\ variant = "peeper_cpp" /\ pc = "frame"
    /\ \E dt \in {d \in DtChoices : now + d <= MaxTime} :
       \E l1 \in {PeeperRecheck(mem, L)} :
       \E curr \in {PeeperCounters(mem, l1)} :
       \E buf \in {PickBuffer(l1.triple, curr, L.prev_fc)} :
       \E pix \in {fb_off(l1.large, buf) + l1.last_header_len} :
       \E rgb16 \in {l1.fmt # 1 /\ l1.fmt # 2} :
       \E detect \in {rgb16 /\ l1.rgb16_loader = "null"} :
       \E loader \in (IF detect THEN choose_rgb16_loader(l1.last_width, l1.last_height)
                       ELSE {l1.rgb16_loader}) :
       \E px \in {PeeperPixels(mem, pix, l1.last_width, l1.last_height, l1.last_line,
                                l1.fmt, loader)} :
       \E hsh \in {FoldRgb(HashSeed, px)} :
       \E st \in {HistFold([g |-> NextEpoch(G), mode_key |-> 0, mode_count |-> 0], px)} :
       \E t \in {now + dt} :
       \E l2 \in {PeeperChange([l1 EXCEPT !.prev_fc = curr,
                                            !.rgb16_loader = IF rgb16 THEN loader ELSE @],
                                 hsh, t)} :
       \E dom \in {ExpandKey(st.mode_key)} :
       \E info \in {(IF l1.first /\ ~L.first THEN {"scaler_changed"} ELSE {})
                       \cup (IF detect THEN {"rgb16_loader"} ELSE {})} :
            /\ now' = t
            /\ L' = l2
            /\ G' = st.g
            /\ out' = Emit([out EXCEPT !.err = @ \cup info],
                           [kind |-> "peeper", time |-> t - l2.start_ns,
                            unchanged |-> t - l2.last_change_ns,
                            rgb |-> dom, name |-> nearest_color_name(dom[1], dom[2], dom[3])])
            /\ ghost' = NotePass(ghost,
                          [valid |-> TRUE, t |-> t, hsh |-> hsh, baseline |-> l1.first,
                           rebased |-> l1.first /\ ~L.first,
                           n |-> Len(px),
                           grid |-> Len(Grid(l1.last_width, l1.last_height, kStep, kStep)),
                           fmt |-> l1.fmt, buf |-> buf,
                           detect |-> detect, loader |-> IF rgb16 THEN loader ELSE "null",
                           as |-> IF l1.fmt = 1 THEN "rgb24"
                                  ELSE IF l1.fmt = 2 THEN "rgba32" ELSE "rgb16",
                           last_hash |-> l1.last_hash, last_change_ns |-> l1.last_change_ns,
                           hist |-> PassHistory(ghost, l1.first, hsh, t)],
                          px, 1)
    /\ pc' = "loop"
    /\ UNCHANGED <<variant, g_run, fd, map, status, mem, arg, ret>>

(***************************************************************************)
(* mister_color_watch.cpp                                                  *)
(***************************************************************************)
\* struct Opts { int step=16; int sleep_us=2500; }
Opts == [step |-> 16, sleep_us |-> 2500]

\* the command lines the program is started with
ArgvChoices == {<<>>, <<"--step", "4", "--sleep-us", "0">>, <<"--step">>}

\* atoi on the argument strings of ArgvChoices
atoi(s) == CASE s = "4" -> 4 [] s = "0" -> 0 [] OTHER -> 0

\* parse_args: false on the first argument that is no known option with a value
RECURSIVE parse_args(_, _)
parse_args(argv, o) ==
    IF argv = <<>> THEN [ok |-> TRUE, opts |-> o]
    ELSE IF argv[1] = "--step" /\ Len(argv) >= 2
         THEN parse_args(SubSeq(argv, 3, Len(argv)),
                         [o EXCEPT !.step = IF atoi(argv[2]) < 1 THEN 1 ELSE atoi(argv[2])])
    ELSE IF argv[1] = "--sleep-us" /\ Len(argv) >= 2
         THEN parse_args(SubSeq(argv, 3, Len(argv)),
                         [o EXCEPT !.sleep_us = IF atoi(argv[2]) < 0 THEN 0 ELSE atoi(argv[2])])
    ELSE [ok |-> FALSE, opts |-> o]

\* if(!parse_args(argc, argv)) return 2;
WatchParseArgs ==
    /\ variant = "color_watch" /\ pc = "args"
    /\ \E argv \in ArgvChoices :
          LET r == parse_args(argv, Opts)
          IN  IF r.ok
              THEN L' = [opts |-> r.opts] /\ pc' = "start" /\ UNCHANGED <<status, out>>
              ELSE /\ out' = [out EXCEPT !.err = @ \cup {"unknown_option"}]
                   /\ Exit(2) /\ UNCHANGED L
    /\ UNCHANGED <<variant, g_run, fd, map, now, mem, G, ghost, arg, ret>>

fb_offset_for_index(triple_large, index) ==
    IF index = 0 THEN 0
    ELSE IF triple_large THEN (IF index = 1 THEN 8388608 ELSE 16777216)
    ELSE (IF index = 1 THEN 2097152 ELSE 4194304)

\* read_header_at lambda
read_header_at(m, off) ==
    IF off + 16 > MAP_LEN THEN FALSE ELSE FbHeader(HeaderBytesAt(m, off)).ty = 1

\* read_fc_sum lambda: a uint8_t sum of the frame counters
read_fc_sum(m, l) ==
    (MemByte(m, l.fc_ptrs[1])
       + (IF l.is_triple THEN MemByte(m, l.fc_ptrs[2]) + MemByte(m, l.fc_ptrs[3]) ELSE 0)) % 256

\* the header read, the banner and the set-up of the locals up to the loop
WatchReadHeader ==
    /\ variant = "color_watch" /\ pc = "mapped"
    /\ \E hb \in {HeaderBytesAt(mem, 0)} :
       \E r \in {ResolveHeader(hb)} :
       \E h_large \in {FbHeader(HeaderBytesAt(mem, 8388608))} :
       \E lg \in {r.triple /\ read_header_at(mem, 8388608)
                     /\ h_large.ty = 1 /\ h_large.pixel_fmt <= 2} :
           IF HeaderMissing(FbHeader(hb))
           THEN /\ out' = [out EXCEPT !.err = @ \cup {"header_not_found"}]
                /\ map' = "unmapped" /\ fd' = "closed" /\ Exit(3)
                /\ UNCHANGED L
           ELSE /\ L' = [opts |-> L.opts,
                         header_len |-> r.header_len, width |-> r.width, height |-> r.height,
                         line |-> r.line, fmt |-> r.fmt, is_triple |-> r.triple,
                         triple_large |-> lg,
                         fc_ptrs |-> <<5, fb_offset_for_index(lg, 1) + 5,
                                       fb_offset_for_index(lg, 2) + 5>>,
                         last_hash |-> <<0, 0>>, first |-> TRUE, last_change_ns |-> now,
                         last_change_mark |-> -1, last |-> 0, i |-> 0]
                /\ out' = [out EXCEPT !.banner = TRUE]
                /\ pc' = "loop"
                /\ UNCHANGED <<map, fd, status>>
    /\ ghost' = [ghost EXCEPT !.hdr_read = TRUE, !.tag = MemByte(mem, 0)]
    /\ UNCHANGED <<variant, g_run, now, mem, G, arg, ret>>

\* while(g_run){ uint8_t last = read_fc_sum(); for(int i=0; ...
WatchLoopTop ==
    /\ variant = "color_watch" /\ pc = "loop"
    /\ IF g_run
       THEN /\ now < MaxTime
            /\ L' = [L EXCEPT !.last = read_fc_sum(mem, L), !.i = 0]
            /\ pc' = "wait"
       ELSE pc' = "after_loop" /\ UNCHANGED L
    /\ UNCHANGED <<variant, g_run, fd, map, status, now, mem, G, out, ghost, arg, ret>>

WatchPoll_untilchange ==
    /\ variant = "color_watch" /\ pc = "wait"
    /\ IF g_run /\ read_fc_sum(mem, L) = L.last
       THEN pc' = "wait" /\ UNCHANGED L
       ELSE pc' = "brk" /\ UNCHANGED L
    /\ UNCHANGED <<variant, g_run, fd, map, status, now, mem, G, out, ghost, arg, ret>>

\* for(int i=0;i<4 && g_run;i++){ if(read_fc_sum() != last) break; usleep(...); }
WatchPoll ==
    /\ variant = "color_watch" /\ pc = "wait"
    /\ IF L.i < 4 /\ g_run /\ read_fc_sum(mem, L) = L.last
       THEN L' = [L EXCEPT !.i = @ + 1] /\ pc' = "wait"
       ELSE pc' = "brk" /\ UNCHANGED L
    /\ UNCHANGED <<variant, g_run, fd, map, status, now, mem, G, out, ghost, arg, ret>>

\* the (r,g,b) of every grid position of one pass over buffer 0
WatchPixels(m, pix0, w, h, line, fmt, xs) ==
    CHOOSE v \in
      { [k \in 1..Len(grid) |->
            IF fmt = 1 THEN Rgb888At(m, pix0 + grid[k][2] * line + grid[k][1] * 3)
            ELSE IF fmt = 2 THEN Rgb888At(m, pix0 + grid[k][2] * line + grid[k][1] * 4)
            ELSE load_rgb565(BytePairAt(m, pix0 + grid[k][2] * line + grid[k][1] * 2))]
        : grid \in {Grid(w, h, xs, xs)} } : TRUE

RECURSIVE SumChan(_, _)
SumChan(px, c) ==
    IF px = <<>> THEN 0
    ELSE CHOOSE v \in { px[1][c] + SumChan(t, c) : t \in {Tail(px)} } : TRUE

\* r_avg = n ? (double)rs/n : 0.0; ... R=(unsigned)r_avg
WatchAverage(px) ==
    LET n == Len(px)
    IN  IF n = 0 THEN <<0, 0, 0>>
        ELSE <<SumChan(px, 1) \div n, SumChan(px, 2) \div n, SumChan(px, 3) \div n>>

\* center pixel (using buffer 0)
WatchCentre(m, pix0, w, h, line, fmt) ==
    LET cx == w \div 2
        cy == h \div 2
    IN  IF fmt = 1 THEN Rgb888At(m, pix0 + cy * line + cx * 3)
        ELSE IF fmt = 2 THEN Rgb888At(m, pix0 + cy * line + cx * 4)
        ELSE load_rgb565(BytePairAt(m, pix0 + cy * line + cx * 2))

\* if(first || hsh != last_hash){ last_hash = hsh; first = false; }
\* static uint64_t last_change_mark = t_ns;   (initialised when first reached)
\* if(hsh != last_hash){ last_change_mark = t_ns; }
WatchChange(l, hsh, t) ==
    LET l1 == IF l.first \/ hsh # l.last_hash
              THEN [l EXCEPT !.last_hash = hsh, !.first = FALSE] ELSE l
        m1 == IF l.last_change_mark = -1 THEN t ELSE l.last_change_mark
    IN  [l1 EXCEPT !.last_change_mark = IF hsh # l1.last_hash THEN t ELSE m1]

\* one iteration after the wait: sampling pass over buffer 0, averages, centre
\* pixel, change detection and the report line; an unsupported pixel format
\* leaves the loop
WatchFrame ==
    /\ variant = "color_watch" /\ pc = "frame"
    /\ IF L.fmt \notin {0, 1, 2}
       THEN /\ out' = [out EXCEPT !.err = @ \cup {"unsupported_format"}]
            /\ ghost' = [ghost EXCEPT !.unk = TRUE]
            /\ pc' = "after_loop"
            /\ UNCHANGED <<now, L>>
       ELSE \E dt \in {d \in DtChoices : now + d <= MaxTime} :
            \E xs \in {IF L.opts.step < 1 THEN 1 ELSE L.opts.step} :
            \E pix0 \in {fb_offset_for_index(L.triple_large, 0) + L.header_len} :
            \E px \in {WatchPixels(mem, pix0, L.width, L.height, L.line, L.fmt, xs)} :
            \E hsh \in {FoldRgb(HashSeed, px)} :
            \E t \in {now + dt} :
            \E l1 \in {WatchChange(L, hsh, t)} :
            \E avg \in {WatchAverage(px)} :
            \E centre \in {WatchCentre(mem, pix0, L.width, L.height, L.line, L.fmt)} :
                  /\ now' = t
                  /\ L' = l1
                  /\ out' = Emit(out,
                               [kind |-> "watch", time |-> t,
                                unchanged |-> t - l1.last_change_mark,
                                rgb |-> avg, centre |-> centre])
                  /\ ghost' = NotePass(ghost,
                                [valid |-> TRUE, t |-> t, hsh |-> hsh, n |-> Len(px),
                                 fmt |-> L.fmt,
                                 hist |-> PassHistory(ghost, ~ghost.pass.valid, hsh, t)],
                                px, 1)
                  /\ pc' = "loop"
    /\ UNCHANGED <<variant, g_run, fd, map, status, mem, G, arg, ret>>

(***************************************************************************)
(* mister_peeper.c.  One clock tick is the update interval of 0.1 s.       *)
(***************************************************************************)
\* what the three files under /tmp leave in rom after the chain of reads
RomNames == {"Unknown", "Game"}

CDtChoices == {0, 1}

\* frame_count, start, last_cnt, fps, rom, last_hash, static_counter
CInit ==
    /\ variant = "peeper_c" /\ pc = "mapped"
    /\ L' = [frame_count |-> 0, start |-> now, last_cnt |-> -1, fps |-> <<0, 1>>,
             rom |-> "Unknown", last_hash |-> <<0, 0>>, static_counter |-> 0]
    /\ pc' = "loop"
    /\ UNCHANGED <<variant, g_run, fd, map, status, now, mem, G, out, ghost, arg, ret>>

\* the frame counter in bits 7..5 of buffer[5], counted modulo 8
CCount(l, flags) ==
    LET frame_cnt == (flags \div 32) % 8
    IN  IF l.last_cnt = -1 THEN [l EXCEPT !.last_cnt = frame_cnt]
        ELSE IF frame_cnt # l.last_cnt
             THEN [l EXCEPT !.frame_count = @ + ((frame_cnt - l.last_cnt + 8) % 8),
                            !.last_cnt = frame_cnt]
        ELSE l

\* for y, x in steps of 16: b = pix[0], r = pix[1], g = pix[2]
CPixels(m, fb, w, h, stride) ==
    LET grid == Grid(w, h, 16, 16)
    IN  [k \in 1..Len(grid) |->
            LET off == fb + grid[k][2] * stride + grid[k][1] * 3
            IN  <<MemByte(m, off + 1), MemByte(m, off + 2), MemByte(m, off)>>]

\* dom_r = r_sum / sample_count; ... into uint8_t, when sample_count > 0
CDominant(px) ==
    LET n == Len(px)
    IN  IF n > 0 THEN <<(SumChan(px, 1) \div n) % 256, (SumChan(px, 2) \div n) % 256,
                        (SumChan(px, 3) \div n) % 256>>
        ELSE <<0, 0, 0>>

\* if (hash == last_hash) static_counter++; else { static_counter = 0; last_hash = hash; }
CStatic(l, hash) ==
    IF hash = l.last_hash THEN [l EXCEPT !.static_counter = @ + 1]
    ELSE [l EXCEPT !.static_counter = 0, !.last_hash = hash]

\* one iteration of while (1): the header check, the frame counter and, once
\* the update interval has passed, the header read, the sampling pass and
\* the status line
CIter ==
    /\ variant = "peeper_c" /\ pc = "loop"
    /\ \E b \in {[i \in 0..15 |-> MemByte(mem, i)]} :
           IF ~(b[0] = 1 /\ b[1] = 1)
           THEN /\ ghost' = [ghost EXCEPT !.hdr_read = TRUE, !.tag = b[0]]
                /\ UNCHANGED <<now, L, out>>
           ELSE \E dt \in {d \in CDtChoices : now + d <= MaxTime} : \E game \in RomNames :
                \E l1 \in {CCount(L, b[5])} :
                \E t \in {now + dt} :
                \E elapsed \in {t - L.start} :
                  /\ now' = t
                  /\ IF elapsed >= 1
                     THEN \E width \in {b[6] * 256 + b[7]} :
                          \E height \in {b[8] * 256 + b[9]} :
                          \E stride \in {b[10] * 256 + b[11]} :
                          \E px \in {CPixels(mem, b[3] * 256 + b[4], width, height, stride)} :
                          \E hash \in {FoldC(<<0, 0>>, px)} :
                          \E l2 \in {CStatic([l1 EXCEPT !.fps = <<l1.frame_count, elapsed>>,
                                                         !.frame_count = 0, !.start = t,
                                                         !.rom = game], hash)} :
                          \E dom \in {CDominant(px)} :
                              /\ L' = l2
                              /\ out' = Emit(out,
                                   [kind |-> "c", static |-> l2.static_counter * elapsed,
                                    rgb |-> dom,
                                    name |-> c_nearest_color_name(dom[1], dom[2], dom[3]),
                                    fps |-> l2.fps,
                                    res |-> <<width, height, b[12] * 256 + b[13],
                                              b[14] * 256 + b[15]>>,
                                    game |-> game])
                              /\ ghost' = NotePass([ghost EXCEPT !.tag = b[0]],
                                            [valid |-> TRUE, t |-> t, hsh |-> hash,
                                             n |-> Len(px), fmt |-> b[1],
                                             hist |-> PassHistory(ghost, ~ghost.pass.valid,
                                                                  hash, t)],
                                            px, 1)
                     ELSE /\ L' = l1
                          /\ ghost' = [ghost EXCEPT !.hdr_read = TRUE, !.tag = b[0]]
                          /\ UNCHANGED out
    /\ pc' = "loop"
    /\ UNCHANGED <<variant, g_run, fd, map, status, mem, G, arg, ret>>

(***************************************************************************)
(* Pure functions under check: the program itself is not started.          *)
(***************************************************************************)
ProgOff ==
    /\ variant = "none" /\ pc = "off" /\ g_run = TRUE
    /\ fd = "none" /\ map = "none" /\ status = -1 /\ now = 0
    /\ mem = [undef |-> TRUE] /\ L = NoLocals /\ G = [undef |-> TRUE]
    /\ out = [undef |-> TRUE] /\ ghost = [undef |-> TRUE]

MaxLen == 3

PixSamples == {<<0, 0, 0>>, <<255, 255, 255>>, <<128, 0, 0>>, <<0, 0, 1>>, <<0, 1, 0>>}

SeqsUpTo(S, n) == UNION {[1..k -> S] : k \in 1..n}

DiffCount(s, t) == Cardinality({i \in 1..Len(s) : s[i] # t[i]})

\* two sampled pixel sequences of one length that differ in at most one pixel
HashInit ==
    /\ ProgOff
    /\ \E s \in SeqsUpTo(PixSamples, MaxLen) : \E i \in 1..Len(s) : \E q \in PixSamples :
          arg = [s |-> s, t |-> [s EXCEPT ![i] = q]]
    /\ ret = RetNone

\* hsh = 2166136261u, then hash_rgb per sampled pixel (the C++ variants)
HashPassCpp ==
    /\ ret = RetNone
    /\ ret' = [done |-> TRUE, fold |-> "hash_rgb",
               hs |-> FoldRgb(HashSeed, arg.s), ht |-> FoldRgb(HashSeed, arg.t)]
    /\ UNCHANGED <<progvars, arg>>

\* hash = 0, then hash*131 + r + (g<<8) + (b<<16) per sampled pixel (mister_peeper.c)
HashPassC ==
    /\ ret.done = FALSE
    /\ ret' = [done |-> TRUE, fold |-> "mul131",
               hs |-> FoldC(<<0, 0>>, arg.s), ht |-> FoldC(<<0, 0>>, arg.t)]
    /\ UNCHANGED <<progvars, arg>>

HashNext == HashPassCpp \/ HashPassC

SpecHash == HashInit /\ [][HashNext]_vars

\* C3: in every variant the fold over one pass's sampled pixels gives equal
\* hashes for identical sequences and different hashes for two sequences of
\* equal length that differ in exactly one pixel.
C3_HashStableAndSensitive ==
    ret.done =>
        /\ arg.s = arg.t => ret.hs = ret.ht
        /\ (Len(arg.s) = Len(arg.t) /\ DiffCount(arg.s, arg.t) = 1) => ret.hs # ret.ht

C3_Witness ==
    /\ ret.done
    /\ Len(arg.s) = MaxLen
    /\ arg.s[1] # arg.t[1]
    /\ DiffCount(arg.s, arg.t) = 1
    /\ ret.hs # ret.ht

(***************************************************************************)
ByteSamples == {0, 1, 15, 16, 127, 128, 254, 255}

\* header buffers: a background (all zero, or sixteen different bytes) with
\* one 16-bit field set to every pair of sample bytes
HdrBackground == {[i \in 1..16 |-> 0], [i \in 1..16 |-> (i * 17 + 3) % 256]}

HdrBufs ==
    {[bg EXCEPT ![k + 1] = hi, ![k + 2] = lo] :
        bg \in HdrBackground, k \in {2, 4, 6, 8, 10}, hi \in ByteSamples, lo \in ByteSamples}

DecodeInit ==
    /\ ProgOff
    /\ \/ \E b \in HdrBufs : arg = [kind |-> "hdr", b |-> b]
       \/ \E x \in 0..65535 : arg = [kind |-> "u16", x |-> x]
    /\ ret = RetNone

\* FbHeader h; memcpy(&h, base, sizeof h); header_len = be16(h.header_len_be); ...
DecodeHeader ==
    /\ ret.done = FALSE /\ arg.kind = "hdr"
    /\ ret' = [done |-> TRUE, h |-> ResolveHeader(arg.b)]
    /\ UNCHANGED <<progvars, arg>>

Swap16Twice ==
    /\ ret.done = FALSE /\ arg.kind = "u16"
    /\ ret' = [done |-> TRUE, twice |-> be16(be16(arg.x))]
    /\ UNCHANGED <<progvars, arg>>

DecodeNext == DecodeHeader \/ Swap16Twice

SpecDecode == DecodeInit /\ [][DecodeNext]_vars

\* C9: the C++ variants decode header_len, width, height and line as the
\* big-endian values at bytes 2-3, 6-7, 8-9 and 10-11, the triple-buffer flag
\* as bit 4 of the big-endian value at bytes 4-5, and be16 is an involution.
C9_BigEndianDecode ==
    ret.done =>
        /\ arg.kind = "hdr" =>
            /\ ret.h.header_len = 256 * arg.b[3] + arg.b[4]
            /\ ret.h.width = 256 * arg.b[7] + arg.b[8]
            /\ ret.h.height = 256 * arg.b[9] + arg.b[10]
            /\ ret.h.line = 256 * arg.b[11] + arg.b[12]
            /\ ret.h.triple = (((256 * arg.b[5] + arg.b[6]) \div 16) % 2 = 1)
        /\ arg.kind = "u16" => ret.twice = arg.x

C9_Witness ==
    /\ ret.done /\ arg.kind = "hdr"
    /\ arg.b[7] = 1 /\ arg.b[8] = 16 /\ ret.h.width = 272
    /\ arg.b[3] # arg.b[4]

(***************************************************************************)
LoadInit ==
    /\ ProgOff
    /\ \E p0 \in Byte : \E p1 \in Byte : arg = <<p0, p1>>
    /\ ret = RetNone

LoadPeeper ==
    /\ ret.done = FALSE
    /\ \E fn \in Rgb16Loaders : ret' = [done |-> TRUE, fn |-> fn, rgb |-> CallLoader(fn, arg)]
    /\ UNCHANGED <<progvars, arg>>

LoadWatch ==
    /\ ret.done = FALSE
    /\ ret' = [done |-> TRUE, fn |-> "load_rgb565", rgb |-> load_rgb565(arg)]
    /\ UNCHANGED <<progvars, arg>>

LoadNext == LoadPeeper \/ LoadWatch

SpecLoad == LoadInit /\ [][LoadNext]_vars

\* the 16-bit value a loader assembles from the byte pair
LoaderWord(fn, p) ==
    IF fn \in {"RGB565-BE", "BGR565-BE"} THEN 256 * p[1] + p[2] ELSE p[1] + 256 * p[2]

SwapRB(c) == <<c[3], c[2], c[1]>>

\* C10: load_rgb565_LE gives floor(field*255/31), floor(field*255/63) of the
\* fields of v = p0 + 256*p1; each BE loader on (p0,p1) equals the LE loader
\* on (p1,p0); each BGR loader equals the RGB loader with r and b exchanged;
\* a zero field gives 0 and a full-scale field gives 255.
C10_Loaders ==
    ret.done =>
        LET v  == arg[1] + 256 * arg[2]
            w  == LoaderWord(ret.fn, arg)
            f  == <<(w \div 2048) % 32, (w \div 32) % 64, w % 32>>
            c  == IF ret.fn \in {"BGR565-LE", "BGR565-BE"} THEN SwapRB(ret.rgb) ELSE ret.rgb
        IN  /\ ret.fn \in {"RGB565-LE", "load_rgb565"} =>
                ret.rgb = <<(((v \div 2048) % 32) * 255) \div 31,
                            (((v \div 32) % 64) * 255) \div 63,
                            ((v % 32) * 255) \div 31>>
            /\ ret.fn = "RGB565-BE" => ret.rgb = load_rgb565_LE(<<arg[2], arg[1]>>)
            /\ ret.fn = "BGR565-BE" => ret.rgb = load_bgr565_LE(<<arg[2], arg[1]>>)
            /\ ret.fn = "BGR565-LE" => ret.rgb = SwapRB(load_rgb565_LE(arg))
            /\ ret.fn = "BGR565-BE" => ret.rgb = SwapRB(load_rgb565_BE(arg))
            /\ \A i \in 1..3 : (f[i] = 0 => c[i] = 0)
            /\ f[1] = 31 => c[1] = 255
            /\ f[2] = 63 => c[2] = 255
            /\ f[3] = 31 => c[3] = 255

C10_Witness ==
    /\ ret.done /\ ret.fn = "BGR565-BE"
    /\ arg = <<248, 31>>
    /\ ret.rgb = <<255, 0, 255>>

(***************************************************************************)
(* The histogram of mister_peeper.cpp, one sample at a time.  ret holds    *)
(* g_epoch, g_stamp, g_count, mode_key and mode_count; tc is the number of *)
(* samples each bucket really received in the current pass.                *)
(***************************************************************************)
MaxSamples == 5
MaxPasses == 2

HistColours == {<<255, 0, 0>>, <<0, 255, 0>>, <<0, 0, 255>>}
HistKeys == {Key565(c) : c \in HistColours}
KeyA == Key565(<<255, 0, 0>>)
KeyB == Key565(<<0, 255, 0>>)

\* a count three samples short of the end of the range of uint16_t
NearWrap == 65536 - 3

NoCounts == [k \in HistKeys |-> 0]

\* between two passes: at program start, and after 2^32-3 and 2^32-2 passes,
\* when a slot still carries the stamp of the latest pass and another slot
\* the stamp of the very first pass
HistIdle ==
    {[g |-> [g_epoch |-> <<0, 1>>, g_stamp |-> <<>>, g_count |-> <<>>],
      mode_key |-> 0, mode_count |-> 0, tc |-> NoCounts, n |-> 0, steps |-> 0,
      passes |-> 0, phase |-> "idle", wrapped |-> FALSE]}
    \cup
    {[g |-> [g_epoch |-> e, g_stamp |-> (KeyA :> e) @@ (KeyB :> <<0, 1>>),
             g_count |-> (KeyA :> 2) @@ (KeyB :> 1)],
      mode_key |-> 0, mode_count |-> 0, tc |-> NoCounts, n |-> 0, steps |-> 0,
      passes |-> 0, phase |-> "idle", wrapped |-> FALSE]
        : e \in {<<65535, 65534>>, <<65535, 65535>>}}

\* inside the first pass over a large frame: bucket KeyA, or KeyA and KeyB,
\* have received NearWrap samples each
HistMidPass ==
    {[g |-> [g_epoch |-> <<0, 2>>, g_stamp |-> (KeyA :> <<0, 2>>),
             g_count |-> (KeyA :> NearWrap)],
      mode_key |-> KeyA, mode_count |-> NearWrap,
      tc |-> [NoCounts EXCEPT ![KeyA] = NearWrap], n |-> NearWrap, steps |-> 0,
      passes |-> 1, phase |-> "pass", wrapped |-> FALSE]}
    \cup
    {[g |-> [g_epoch |-> <<0, 2>>,
             g_stamp |-> (KeyA :> <<0, 2>>) @@ (KeyB :> <<0, 2>>),
             g_count |-> (KeyA :> NearWrap) @@ (KeyB :> NearWrap)],
      mode_key |-> mk, mode_count |-> NearWrap,
      tc |-> [NoCounts EXCEPT ![KeyA] = NearWrap, ![KeyB] = NearWrap],
      n |-> 2 * NearWrap, steps |-> 0,
      passes |-> 1, phase |-> "pass", wrapped |-> FALSE] : mk \in {KeyA, KeyB}}

HistInit ==
    /\ ProgOff
    /\ arg = [unused |-> TRUE]
    /\ ret \in HistIdle \cup HistMidPass

\* if(++g_epoch==0){...}  epoch = g_epoch;  mode_key = 0;  mode_count = 0;
HistBegin ==
    /\ ret.passes < MaxPasses
    /\ \E g1 \in {NextEpoch(ret.g)} :
          ret' = [ret EXCEPT !.g = g1, !.mode_key = 0, !.mode_count = 0,
                             !.tc = NoCounts, !.n = 0, !.steps = 0,
                             !.passes = @ + 1, !.phase = "pass",
                             !.wrapped = (ret.g.g_epoch = <<65535, 65535>>)]
    /\ UNCHANGED <<progvars, arg>>

\* the histogram statements of the loop body for one sampled pixel
HistSample ==
    /\ ret.phase = "pass" /\ ret.steps < MaxSamples
    /\ \E c \in HistColours :
       \E st \in {HistStep([g |-> ret.g, mode_key |-> ret.mode_key,
                            mode_count |-> ret.mode_count], c)} :
          ret' = [ret EXCEPT !.g = st.g, !.mode_key = st.mode_key,
                             !.mode_count = st.mode_count,
                             !.tc[Key565(c)] = @ + 1,
                             !.n = @ + 1, !.steps = @ + 1]
    /\ UNCHANGED <<progvars, arg>>

HistNext == HistBegin \/ HistSample

SpecHist == HistInit /\ [][HistNext]_vars

\* C11: after a pass that visited at least one pixel, mode_key is a bucket
\* whose number of samples in this frame is maximal, whatever the number of
\* samples (more than 65535 in one bucket included)
C11_ModeIsMostFrequent ==
    (ret.phase = "pass" /\ ret.n >= 1) =>
        /\ ret.mode_key \in HistKeys
        /\ \A k \in HistKeys : ret.tc[ret.mode_key] >= ret.tc[k]

\* C17: at the start of a pass the epoch is not 0 and no slot of g_stamp
\* carries it, also right after g_epoch wrapped around
C17_EpochFresh ==
    (ret.phase = "pass" /\ ret.n = 0) =>
        /\ ret.g.g_epoch # <<0, 0>>
        /\ \A k \in HistKeys \cup DOMAIN ret.g.g_stamp :
              StampAt(ret.g, k) # ret.g.g_epoch

\* a pass begins right after g_epoch wrapped around
C17_Witness ==
    /\ ret.phase = "pass" /\ ret.n = 0 /\ ret.wrapped
    /\ ret.g.g_epoch = <<0, 1>>

(***************************************************************************)
(* The buffer pick of mister_peeper.cpp on its own: arg holds the triple   *)
(* flag, the three counter bytes in memory and prev_fc.                    *)
(***************************************************************************)
FcSamples == {0, 1, 128, 255}

PickInit ==
    /\ ProgOff
    /\ \E tr \in BOOLEAN : \E fc \in FcSamples \X FcSamples \X FcSamples :
       \E pv \in FcSamples \X FcSamples \X FcSamples :
          arg = [triple |-> tr, fc |-> fc, prev_fc |-> pv]
    /\ ret = RetNone

\* curr_fc[3] = {...};  buf = ...;  prev_fc[i] = curr_fc[i];
PickStep ==
    /\ ret.done = FALSE
    /\ \E curr \in {<<arg.fc[1], IF arg.triple THEN arg.fc[2] ELSE 0,
                      IF arg.triple THEN arg.fc[3] ELSE 0>>} :
          ret' = [done |-> TRUE, curr_fc |-> curr,
                  buf |-> PickBuffer(arg.triple, curr, arg.prev_fc),
                  prev_fc |-> curr]
    /\ UNCHANGED <<progvars, arg>>

PickNext == PickStep

SpecPick == PickInit /\ [][PickNext]_vars

\* how far counter byte i moved since the previous iteration, modulo 256
Advance(i) == (arg.fc[i + 1] - arg.prev_fc[i + 1]) % 256

CResolveHeader(b) ==
    [hdr_offset |-> b[4] * 256 + b[5],
     width      |-> b[7] * 256 + b[8],
     height     |-> b[9] * 256 + b[10],
     stride     |-> b[11] * 256 + b[12]]

LayoutHeaders ==
    {MkHeader(1, fmt, hlen, attr, g[1], g[2], g[3]) :
        fmt \in {0, 1, 2}, hlen \in {16, 32}, attr \in {0, 16},
        g \in {<<8, 8, 32>>, <<320, 240, 960>>}}

LayoutInit ==
    /\ ProgOff
    /\ \E b \in LayoutHeaders : arg = [b |-> b]
    /\ ret = [cpp |-> [done |-> FALSE], watch |-> [done |-> FALSE], c |-> [done |-> FALSE]]

\* mister_peeper.cpp: pix = base + fb_off(large, 0) + last_header_len
LayoutPeeper ==
    /\ ~ret.cpp.done
    /\ \E r \in {ResolveHeader(arg.b)} :
          ret' = [ret EXCEPT !.cpp = [done |-> TRUE, fmt |-> r.fmt,
                                      off |-> fb_off(FALSE, 0) + r.header_len,
                                      width |-> r.width, height |-> r.height,
                                      stride |-> r.line]]
    /\ UNCHANGED <<progvars, arg>>

\* mister_color_watch.cpp: pix0 = pixel_base_for(0)
LayoutWatch ==
    /\ ~ret.watch.done
    /\ \E r \in {ResolveHeader(arg.b)} :
          ret' = [ret EXCEPT !.watch = [done |-> TRUE, fmt |-> r.fmt,
                                        off |-> fb_offset_for_index(FALSE, 0) + r.header_len,
                                        width |-> r.width, height |-> r.height,
                                        stride |-> r.line]]
    /\ UNCHANGED <<progvars, arg>>

\* mister_peeper.c: fb = buffer + hdr_offset; buffer[1] is tested against 1
LayoutC ==
    /\ ~ret.c.done
    /\ \E r \in {CResolveHeader(arg.b)} :
          ret' = [ret EXCEPT !.c = [done |-> TRUE, fmt |-> arg.b[2],
                                    off |-> r.hdr_offset,
                                    width |-> r.width, height |-> r.height,
                                    stride |-> r.stride]]
    /\ UNCHANGED <<progvars, arg>>

LayoutNext == LayoutPeeper \/ LayoutWatch \/ LayoutC

SpecLayout == LayoutInit /\ [][LayoutNext]_vars

\* C16: for the same header bytes the three variants resolve the same
\* layout: the format from byte 1, the offset of the pixel data from the
\* big-endian value at bytes 2-3, width, height and stride from bytes 6-7,
\* 8-9 and 10-11, so that all three start sampling at the same offset with
\* the same geometry
C16_SameLayout ==
    (ret.cpp.done /\ ret.watch.done /\ ret.c.done) =>
        /\ ret.cpp = ret.watch /\ ret.watch = ret.c
        /\ ret.c.fmt = arg.b[2]
        /\ ret.c.off = 256 * arg.b[3] + arg.b[4]
        /\ ret.c.width = 256 * arg.b[7] + arg.b[8]
        /\ ret.c.height = 256 * arg.b[9] + arg.b[10]
        /\ ret.c.stride = 256 * arg.b[11] + arg.b[12]

(***************************************************************************)
(* nearest_color_name of mister_peeper.cpp and of mister_peeper.c          *)
(***************************************************************************)
\* channel values: those of the two palettes, and values half way between
ChannelSamples == {0, 42, 64, 96, 128, 160, 165, 192, 203, 215, 224, 255}

NameInit ==
    /\ ProgOff
    /\ \E r \in ChannelSamples : \E g \in ChannelSamples : \E b \in ChannelSamples :
          arg = <<r, g, b>>
    /\ ret = RetNone

NamePeeper ==
    /\ ret.done = FALSE
    /\ ret' = [done |-> TRUE, tab |-> kPalette,
               name |-> nearest_color_name(arg[1], arg[2], arg[3])]
    /\ UNCHANGED <<progvars, arg>>

NameC ==
    /\ ret.done = FALSE
    /\ ret' = [done |-> TRUE, tab |-> color_table,
               name |-> c_nearest_color_name(arg[1], arg[2], arg[3])]
    /\ UNCHANGED <<progvars, arg>>

NameNext == NamePeeper \/ NameC

SpecName == NameInit /\ [][NameNext]_vars

\* the squared distance of the colour asked for to entry i of the table used
DistTo(i) == SqDist(ret.tab[i], arg[1], arg[2], arg[3])

\* C15: the name returned is that of the palette entry at minimal squared
\* Euclidean distance, the earliest among equals; a colour that is a palette
\* entry yields that entry's name, in both palettes
C15_NearestName ==
    ret.done =>
        /\ \E i \in 1..Len(ret.tab) :
              /\ ret.name = ret.tab[i][1]
              /\ \A j \in 1..Len(ret.tab) : DistTo(i) <= DistTo(j)
              /\ \A j \in 1..(i - 1) : DistTo(j) > DistTo(i)
        /\ \A i \in 1..Len(ret.tab) :
              arg = <<ret.tab[i][2], ret.tab[i][3], ret.tab[i][4]>> => ret.name = ret.tab[i][1]
        /\ arg = <<255, 0, 0>> => ret.name = "Red"
        /\ arg = <<255, 255, 255>> => ret.name = "White"
        /\ arg = <<128, 128, 128>> => ret.name = "Gray"
        /\ arg = <<0, 0, 0>> => ret.name = "Black"

\* (64,0,0) is as far from Black as from Maroon: the earlier entry is named
C15_Witness ==
    /\ ret.done /\ ret.tab = kPalette
    /\ arg = <<64, 0, 0>> /\ ret.name = "Black"
    /\ DistTo(1) = DistTo(11)

(***************************************************************************)
(* The bytes a sampling pass reads, as pairs <<offset of the first byte,   *)
(* number of bytes>>, for headers whose images do not fit the mapping.     *)
(***************************************************************************)
\* bytes of the mapping between one pixel and the next, and bytes read of it
PixelStride(fmt) == IF fmt = 1 THEN 3 ELSE IF fmt = 2 THEN 4 ELSE 2
PixelRead(fmt) == IF fmt = 1 \/ fmt = 2 THEN 3 ELSE 2

GridReads(pix, w, h, line, fmt, xs) ==
    {<<pix + g[2] * line + g[1] * PixelStride(fmt), PixelRead(fmt)>> :
        g \in {Grid(w, h, xs, xs)[k] : k \in 1..Len(Grid(w, h, xs, xs))}}

\* mister_peeper.cpp: the grid and, on the 16-bit path, the samples of
\* choose_rgb16_loader
PeeperReads(pix, w, h, line, fmt) ==
    GridReads(pix, w, h, line, fmt, kStep)
      \cup (IF fmt = 1 \/ fmt = 2 THEN {}
            ELSE {<<pix + q[2] * line + q[1] * 2, 2>> : q \in DetectPositions(w, h)})

\* mister_color_watch.cpp: the grid and the centre pixel, both of buffer 0
WatchReads(pix0, w, h, line, fmt, xs) ==
    GridReads(pix0, w, h, line, fmt, xs)
      \cup {<<pix0 + (h \div 2) * line + (w \div 2) * PixelStride(fmt), PixelRead(fmt)>>}

\* mister_peeper.c: pix[0], pix[1], pix[2] in steps of 16
CReads(fb, w, h, stride) == GridReads(fb, w, h, stride, 1, 16)

\* width, height, line: an image inside the mapping, and two with long lines
BoundsGeometries == {<<8, 8, 32>>, <<8, 200, 65535>>, <<8, 420, 65535>>}

BoundsInit ==
    /\ ProgOff
    /\ \E v \in Variants : \E fmt \in {0, 1, 2} : \E g \in BoundsGeometries :
       \E large \in BOOLEAN : \E buf \in 0..2 :
          /\ v # "peeper_cpp" => (~large /\ buf = 0)
          /\ arg = [v |-> v, large |-> large, buf |-> buf,
                    b |-> MkHeader(1, fmt, 16, IF buf > 0 \/ large THEN 16 ELSE 0,
                                   g[1], g[2], g[3])]
    /\ ret = RetNone

BoundsPeeper ==
    /\ ret.done = FALSE /\ arg.v = "peeper_cpp"
    /\ \E r \in {ResolveHeader(arg.b)} :
          ret' = [done |-> TRUE, len |-> MAP_LEN,
                  reads |-> PeeperReads(fb_off(arg.large, arg.buf) + r.header_len,
                                        r.width, r.height, r.line, r.fmt)]
    /\ UNCHANGED <<progvars, arg>>

BoundsWatch ==
    /\ ret.done = FALSE /\ arg.v = "color_watch"
    /\ \E r \in {ResolveHeader(arg.b)} :
          ret' = [done |-> TRUE, len |-> MAP_LEN,
                  reads |-> WatchReads(fb_offset_for_index(arg.large, 0) + r.header_len,
                                       r.width, r.height, r.line, r.fmt, Opts.step)]
    /\ UNCHANGED <<progvars, arg>>

BoundsC ==
    /\ ret.done = FALSE /\ arg.v = "peeper_c"
    /\ \E r \in {CResolveHeader(arg.b)} :
          ret' = [done |-> TRUE, len |-> MISTER_SCALER_BUFFERSIZE,
                  reads |-> CReads(r.hdr_offset, r.width, r.height, r.stride)]
    /\ UNCHANGED <<progvars, arg>>

BoundsNext == BoundsPeeper \/ BoundsWatch \/ BoundsC

SpecBounds == BoundsInit /\ [][BoundsNext]_vars

\* C18: every byte read while sampling (grid pixels, centre pixel, samples
\* of the 16-bit auto-detection) lies inside the mapped window, for every
\* header and every buffer index, in every variant
C18_ReadsInsideMapping ==
    ret.done => \A rd \in ret.reads : rd[1] >= 0 /\ rd[1] + rd[2] <= ret.len

(***************************************************************************)
(* The three programs                                                      *)
(***************************************************************************)
Init == ProgInit

Next ==
    \/ EnvFrame \/ EnvScaler \/ Signal
    \/ Open \/ Mmap \/ BreakCheck \/ Shutdown
    \/ PeeperReadHeader \/ PeeperLoopTop \/ PeeperPoll \/ PeeperFrame
    \/ WatchParseArgs \/ WatchReadHeader \/ WatchLoopTop \/ WatchPoll \/ WatchFrame
    \/ CInit \/ CIter

Spec == Init /\ [][Next]_vars

\* the steps of a started program of the C++ variants: the process keeps
\* being scheduled and every usleep returns
CppStep ==
    \/ BreakCheck \/ Shutdown
    \/ PeeperLoopTop \/ PeeperPoll \/ PeeperFrame
    \/ WatchLoopTop \/ WatchPoll \/ WatchFrame

FairSpec == Init /\ [][Next]_vars /\ WF_vars(CppStep)

\* an iteration of mister_peeper.c during which CLOCK_MONOTONIC moved on
CTick == CIter /\ now' > now

\* the steps of all three programs are taken, and the clock read by
\* mister_peeper.c advances
FairSpecAll == Init /\ [][Next]_vars /\ WF_vars(CppStep) /\ WF_vars(CTick)

(***************************************************************************)
(* Properties                                                              *)
(***************************************************************************)
HeaderFound == ghost.tag = 1

\* C1: in mister_peeper.cpp, on every sampled frame that is no baseline frame
\* the last-change timestamp becomes the current time exactly when the
\* frame's hash differs from the stored hash of the previous frame, and
\* timestamp and stored hash stay as they were when the hashes are equal; the
\* printed unchanged time is 0 exactly on baseline and changed frames and is
\* the time since the latest such frame otherwise.
C1_ChangeTimer ==
    (variant = "peeper_cpp" /\ ghost.pass.valid) =>
        LET p       == ghost.pass
            changed == p.hsh # p.last_hash
        IN  /\ ~p.baseline =>
                  /\ p.last_hash = p.hist.prev_hsh
                  /\ (L.last_change_ns = p.t) <=> changed
                  /\ ~changed => L.last_change_ns = p.last_change_ns /\ L.last_hash = p.last_hash
            /\ L.last_hash = p.hsh
            /\ (out.last.unchanged = 0) <=> (p.baseline \/ changed)
            /\ out.last.unchanged = p.t - p.hist.reset_t

\* a frame with the hash of the frame before it: the timer was not reset
C1_Witness ==
    /\ variant = "peeper_cpp" /\ ghost.pass.valid /\ ~ghost.pass.baseline
    /\ ghost.pass.hsh = ghost.pass.last_hash
    /\ out.last.unchanged > 0 /\ out.lines >= 2

\* C2: in mister_color_watch.cpp an iteration whose sample hash differs from
\* the hash of the preceding iteration prints an unchanged value of 0.
C2_ResetOnChange ==
    (variant = "color_watch" /\ ghost.pass.valid /\ ghost.pass.hist.prev_valid
        /\ ghost.pass.hsh # ghost.pass.hist.prev_hsh)
      => out.last.unchanged = 0

\* C4 as stated: in every variant a type byte other than 0x01 at the header
\* read ends the program with a non-zero status (3 in the C++ variants),
\* nothing sampled and no report line written.
C4_FatalInEveryVariant ==
    (ghost.hdr_read /\ ghost.tag # 1) =>
        /\ pc = "exited" /\ status # 0
        /\ variant \in CppVariants => status = 3
        /\ ~ghost.sampled /\ out.lines = 0

\* C4: in the C++ variants a type byte other than 0x01 at the header read ends
\* the program with status 3, region unmapped, descriptor closed, nothing
\* sampled and no report line written; mister_peeper.c never exits once the
\* region is mapped, and an iteration that finds the first two header bytes
\* other than 1, 1 samples nothing, writes nothing and polls again.
C4_HeaderNotFound ==
    /\ [](/\ (variant \in CppVariants /\ ghost.hdr_read /\ ghost.tag # 1) =>
                /\ pc = "exited" /\ status = 3
                /\ map = "unmapped" /\ fd = "closed"
                /\ "header_not_found" \in out.err
                /\ ~ghost.sampled /\ out.lines = 0
          /\ (variant \in CppVariants /\ status = 3) => (ghost.hdr_read /\ ghost.tag # 1)
          /\ (variant = "peeper_c" /\ map = "mapped") => (pc # "exited" /\ status = -1))
    /\ [][(variant = "peeper_c" /\ pc = "loop"
             /\ ~(MemByte(mem, 0) = 1 /\ MemByte(mem, 1) = 1))
            => (pc' = "loop" /\ out' = out /\ L' = L /\ now' = now
                  /\ ghost'.sampled = ghost.sampled)]_vars

\* a C++ variant that found another type byte and returned 3
C4_Witness ==
    /\ variant \in CppVariants /\ ghost.hdr_read /\ ghost.tag = 0
    /\ pc = "exited" /\ status = 3

\* C5: in every variant a failed open or mmap ends the program with status 1
\* before any header byte is read or report line written, the descriptor
\* being closed first when mmap failed; status 1 comes from nothing else,
\* status 3 only from a missing header and status 0 only from the shutdown.
C5_OpenMmapFatal ==
    /\ "open" \in out.err =>
          /\ pc = "exited" /\ status = 1 /\ fd = "none" /\ map = "none"
          /\ ~ghost.hdr_read /\ ~ghost.sampled /\ out.lines = 0 /\ ~out.banner
    /\ "mmap" \in out.err =>
          /\ pc = "exited" /\ status = 1 /\ fd = "closed" /\ map = "none"
          /\ ~ghost.hdr_read /\ ~ghost.sampled /\ out.lines = 0 /\ ~out.banner
    /\ status = 1 => ("open" \in out.err \/ "mmap" \in out.err)
    /\ status = 3 => ("header_not_found" \in out.err /\ out.err \cap {"open", "mmap"} = {})
    /\ status = 0 => (map = "unmapped" /\ out.err \cap {"open", "mmap", "header_not_found"} = {})

\* mmap failed after a successful open
C5_Witness ==
    /\ "mmap" \in out.err /\ pc = "exited" /\ status = 1 /\ fd = "closed"

\* C6 as stated: with a pixel-format byte that is none of 0, 1, 2 the C++
\* variants keep polling, print no message, interpret no pixel and show
\* #000000 in every report line.
C6_SilentZero ==
    /\ (variant \in CppVariants /\ ghost.unk) =>
          /\ pc = "exited" => ~g_run
          /\ out.err \cap {"unsupported_format", "rgb16_loader"} = {}
    /\ (variant \in CppVariants /\ ghost.pass.valid /\ ghost.pass.fmt \notin {0, 1, 2}) =>
          /\ ~ghost.sampled
          /\ out.last.rgb = <<0, 0, 0>>

\* C6: with a pixel-format byte that is none of 0, 1, 2, mister_color_watch.cpp
\* prints "Unsupported pixel format", leaves the loop and returns 0 without a
\* report line; mister_peeper.cpp reads every grid position as a 16-bit pixel
\* through the loader it detected (announced on stderr), keeps polling, and
\* reports the dominant colour of those pixels.
C6_UnknownFormat ==
    /\ (variant = "color_watch" /\ HeaderFound /\ L.fmt \notin {0, 1, 2}) =>
          /\ out.lines = 0 /\ ~ghost.sampled /\ ~ghost.pass.valid
          /\ ghost.unk <=> "unsupported_format" \in out.err
          /\ ghost.unk => pc \in {"after_loop", "exited"}
          /\ pc = "exited" => (status = 0 /\ map = "unmapped" /\ fd = "closed")
    /\ (variant = "peeper_cpp" /\ ghost.pass.valid /\ ghost.pass.fmt \notin {0, 1, 2}) =>
          /\ ghost.pass.as = "rgb16"
          /\ ghost.pass.n = ghost.pass.grid
          /\ ghost.pass.n > 0 => ghost.sampled
          /\ L.rgb16_loader \in Rgb16Loaders
          /\ "rgb16_loader" \in out.err /\ "unsupported_format" \notin out.err
          /\ out.last.rgb = ExpandKey(Key565(out.last.rgb))
          /\ pc = "exited" => ~g_run

\* mister_peeper.cpp reported a colour other than #000000 for format 3
C6_Witness ==
    /\ variant = "peeper_cpp" /\ ghost.pass.valid /\ ghost.pass.fmt = 3
    /\ ghost.pass.n > 0 /\ out.last.rgb # <<0, 0, 0>> /\ g_run

\* C7: a pass that visits no pixel (width or height 0) reports zero for every
\* colour value: the average or dominant colour and, in
\* mister_color_watch.cpp, the centre pixel.
C7_ZeroSamples ==
    (ghost.pass.valid /\ ghost.pass.n = 0) =>
        /\ out.last.rgb = <<0, 0, 0>>
        /\ variant = "color_watch" => out.last.centre = <<0, 0, 0>>

\* C8: in the C++ variants, once the handler has cleared the run flag, the
\* program leaves the polling loop, inner wait included, unmaps the region,
\* closes the descriptor and returns 0; at most one report line is written
\* after the flag was cleared; every exit taken after a successful mmap has
\* unmapped the region.
C8_Shutdown ==
    /\ [](variant \in CppVariants =>
            /\ ghost.after_sig <= 1
            /\ (pc = "exited" /\ map # "none") => (map = "unmapped" /\ fd = "closed")
            /\ (pc = "exited" /\ status = 0) => ~g_run \/ "unsupported_format" \in out.err)
    /\ (variant \in CppVariants /\ ~g_run /\ pc \in {"loop", "wait", "brk", "frame", "after_loop"})
          ~> (pc = "exited" /\ status = 0 /\ map = "unmapped" /\ fd = "closed")

\* the flag was cleared inside the inner wait and the program has returned 0
C8_Witness ==
    /\ variant \in CppVariants /\ ~g_run /\ pc = "exited" /\ status = 0
    /\ map = "unmapped" /\ fd = "closed" /\ out.lines >= 1 /\ ghost.after_sig = 1

\* a step that processes one frame in mister_peeper.cpp
PeeperFrameStep == variant = "peeper_cpp" /\ pc = "frame" /\ pc' = "loop"

\* the header as it stands in memory, against the last-seen geometry
HdrNow == ResolveHeader(HeaderBytesAt(mem, 0))

GeometryChanged ==
    \/ HdrNow.width # L.last_width \/ HdrNow.height # L.last_height
    \/ HdrNow.line # L.last_line \/ HdrNow.fmt # L.last_fmt
    \/ HdrNow.header_len # L.last_header_len \/ HdrNow.triple # L.triple

\* C13: the 16-bit loader is chosen on a 16-bit frame exactly when none is
\* held (none is held before the first frame) or when width, height, line,
\* format, header length or triple flag changed; between two changes the
\* loader held is used as it is; a change on another frame discards it; a
\* 16-bit frame is never read with a null loader; and the frame that sees a
\* change is a baseline frame that reports unchanged = 0
C13_LoaderOncePerChange ==
    [][PeeperFrameStep =>
          /\ ghost'.pass.detect <=>
                (HdrNow.fmt \notin {1, 2} /\ (GeometryChanged \/ L.rgb16_loader = "null"))
          /\ HdrNow.fmt \notin {1, 2} =>
                /\ ghost'.pass.loader \in Rgb16Loaders
                /\ L'.rgb16_loader = ghost'.pass.loader
                /\ ~ghost'.pass.detect => ghost'.pass.loader = L.rgb16_loader
          /\ HdrNow.fmt \in {1, 2} =>
                L'.rgb16_loader = IF GeometryChanged THEN "null" ELSE L.rgb16_loader
          /\ GeometryChanged => ghost'.pass.baseline /\ out'.last.unchanged = 0
          /\ ~ghost.pass.valid => L.rgb16_loader = "null"]_vars

\* a second report line, for a 16-bit frame that followed a change seen
\* after an earlier frame: the loader was chosen again
C13_Witness ==
    /\ variant = "peeper_cpp" /\ out.lines >= 2
    /\ ghost.pass.valid /\ ghost.pass.fmt = 0 /\ ghost.pass.n > 0
    /\ ghost.pass.rebased /\ ghost.pass.detect
    /\ out.last.unchanged = 0

\* inside the polling loop
InLoop == Alive /\ pc \in {"loop", "wait", "brk", "frame"}

\* the header is one the variant reports on: mister_peeper.c tests bytes 0
\* and 1 in every iteration, mister_color_watch.cpp leaves its loop on a
\* format other than 0, 1, 2, mister_peeper.cpp tested the type byte at start
HeaderAccepted ==
    CASE variant = "peeper_c"    -> mem.hdr[1] = 1 /\ mem.hdr[2] = 1
      [] variant = "color_watch" -> InLoop /\ L.fmt \in {0, 1, 2}
      [] OTHER                   -> TRUE

\* a report line is written
EmitsLine == out'.lines > out.lines

\* C14 as stated: in every variant, while the run flag is set and the header
\* is valid, another report line is always eventually emitted, whether or
\* not a frame counter changes
C14_Cadence ==
    <>[](InLoop /\ g_run /\ HeaderAccepted /\ now < MaxTime)
        => []<><<EmitsLine>>_vars

\* C14: mister_color_watch.cpp and mister_peeper.c always eventually emit
\* another line while the run flag is set and the header is accepted, whether
\* or not a frame counter changes; mister_peeper.cpp either keeps emitting
\* lines or stays in its inner wait with the sum of the watched counters
\* equal to the sum taken at the top of the iteration, and it leaves that
\* wait only when the sums differ or the flag is cleared
C14_CadenceByVariant ==
    /\ <>[](variant \in {"color_watch", "peeper_c"} /\ InLoop /\ g_run /\ HeaderAccepted
              /\ now < MaxTime)
          => []<><<EmitsLine>>_vars
    /\ <>[](variant = "peeper_cpp" /\ InLoop /\ g_run /\ now < MaxTime)
          => \/ []<><<EmitsLine>>_vars
             \/ <>[](variant = "peeper_cpp" /\ pc = "wait" /\ PeeperFcSum(mem, L) = L.s0)
    /\ [][(variant = "peeper_cpp" /\ pc = "wait" /\ pc' = "brk")
             => (~g_run \/ PeeperFcSum(mem, L) # L.s0)]_vars

\* mister_color_watch.cpp has emitted two lines although no frame counter
\* and no header byte ever changed
C14_Witness ==
    /\ variant = "color_watch" /\ ghost.nenv = 0 /\ g_run
    /\ out.lines >= 2

\* C19: in every iteration of mister_peeper.cpp, for each buffer i, the
\* frame-counter byte watched (attr_ptrs[i]) and the pixel base used
\* (fb_off(large, i) + header length) belong to the same buffer offset
\* fb_off(large, i), also after large was recomputed on a scaler change
C19_CounterAndPixelsSameBuffer ==
    (variant = "peeper_cpp" /\ pc \in {"loop", "wait", "brk", "frame", "after_loop"}) =>
        \A i \in 0..2 : L.attr_ptrs[i + 1] = fb_off(L.large, i) + 5

====
